---- MODULE Spec2Model ----
(***************************************************************************)
(* Model of simulations/simulate_critical_values.py: the command-line      *)
(* dispatch of __main__ and the three report functions                     *)
(* simulate_asymptotic_critical_values, simulate_power_curves and          *)
(* simulate_table1_sizes, with the process-wide numpy random stream.       *)
(*                                                                         *)
(* Real numbers are kept exact: a percentile is carried times 100, theta   *)
(* times 10, a rate or size as the pair <<numerator, denominator>>.        *)
(***************************************************************************)
EXTENDS Integers, Sequences, FiniteSets

VARIABLES
    args,      \* the parsed flags (argparse namespace)
    pc,        \* position in __main__: "L240", "L243", "L246", "L249", "exit", "failed"
    fn,        \* the report function executing: "none", "cv", "power", "table1"
    ran,       \* the report functions entered so far, in order
    stream,    \* numpy's process-wide random state: [seed, pos]
    point,     \* 1-based index of the grid point (cv, power) the report is at
    emitted,   \* result rows the executing report has printed
    calls,     \* keyword arguments of the collaborator calls of the executing report
    stats,     \* the ReplicationSample last returned to the report
    row,       \* the result row last printed by the critical-values report
    cal,       \* the calibrator: stage, reference sample, nominal, cv, rates
    t1,        \* locals of simulate_table1_sizes
    hist,      \* what simulate_table1_sizes did in the current cell / row
    raised     \* the collaborator error raised, if any

vars == <<args, pc, fn, ran, stream, point, emitted, calls, stats, row, cal, t1, hist, raised>>

(***************************************************************************)
(* Bounds of the model (stand-ins for the sizes the script runs with).     *)
(***************************************************************************)
\* replications per size-table cell (n_sims = 1000 in the script)
NSims == 2
\* sample path length (T = 200 in the script)
TLen == 2
\* longest ReplicationSample (n_replications = 10000 / 5000 in the script)
MaxLen == 3
\* statistic values of a ReplicationSample range over 0..MaxVal
MaxVal == 2
\* how far a collaborator may leave the process-wide stream advanced
MaxEntryPos == 1

(***************************************************************************)
(* Program constants.                                                      *)
(***************************************************************************)
seed == 42
c_bar_power == 10
nominal_power == 50
c_table1 == 10
c_bar_table1 == 10
n_replications_cv == 10000
n_steps_cv == 5000
n_replications_power == 5000
n_steps_power == 2000

c_bar_values == <<5, 7, 10, 13, 15, 20>>
c_values == [k \in 1..11 |-> k - 1]
alpha_power == <<1, 2, 3>>
theta_values == <<0, 6, -6>>
alpha_values == <<1, 3, 5>>

(***************************************************************************)
(* ReplicationSamples the collaborators may return: every sequence of      *)
(* 1..MaxLen statistic values; the extractor is also given the synthetic   *)
(* sample 1..100.                                                          *)
(***************************************************************************)
Synthetic == [k \in 1..100 |-> k]
Samples == UNION {[1..n -> 0..MaxVal] : n \in 1..MaxLen}
ExtractorSamples == Samples \cup {Synthetic}

(***************************************************************************)
(* numpy.percentile(stats, p), default method (linear interpolation        *)
(* between order statistics), times 100.                                    *)
(***************************************************************************)
\* the k-th smallest value of the sample (k from 1), as a selection finds it
OrderStatistic(sample, k) ==
    CHOOSE v \in {sample[j] : j \in 1..Len(sample)} :
        /\ Cardinality({j \in 1..Len(sample) : sample[j] < v}) < k
        /\ k <= Cardinality({j \in 1..Len(sample) : sample[j] <= v})

\* faulty variant: method "lower", no interpolation
PercentileLower(sample, p) ==
    OrderStatistic(sample, (p * (Len(sample) - 1)) \div 100 + 1)

Percentile(sample, p) ==
    LET n  == Len(sample)
        h  == p * (n - 1)
        lo == h \div 100
        r  == h % 100
        hi == IF lo + 1 < n THEN lo + 1 ELSE lo
        a  == OrderStatistic(sample, lo + 1)
        b  == OrderStatistic(sample, hi + 1)
    IN 100 * a + r * (b - a)

\* lines 78-80 / 105-107: cv_1, cv_5, cv_10
CriticalValues(sample) ==
    [cv_1 |-> Percentile(sample, 99),
     cv_5 |-> Percentile(sample, 95),
     cv_10 |-> Percentile(sample, 90)]

(***************************************************************************)
(* The command line: which report each "if" of __main__ runs.              *)
(***************************************************************************)
Flags == [all : BOOLEAN, critical_values : BOOLEAN, power_curves : BOOLEAN, table1 : BOOLEAN]

\* faulty variant: --all forgotten in the first test
RunsCriticalNoAll(a) == a.critical_values

RunsCritical(a) == a.all \/ a.critical_values
RunsPower(a) == a.all \/ a.power_curves
RunsTable1(a) == a.all \/ a.table1
RunsDefault(a) == ~(a.all \/ a.critical_values \/ a.power_curves \/ a.table1)

NoError == [fn |-> "none", point |-> 0, rep |-> 0, who |-> "none"]
NoRow == [c_bar |-> 0, cv_1 |-> 0, cv_5 |-> 0, cv_10 |-> 0]
CalIdle == [stage |-> "idle", ref |-> <<>>, nominal |-> 0, cv |-> 0, count |-> 0, n |-> 0,
            other_count |-> 0, other_n |-> 0]
T1Idle == [kind |-> 0, ti |-> 0, ai |-> 0, i |-> 0, rejections |-> 0, sizes |-> <<>>, phase |-> "idle"]
HistIdle == [cellLog |-> <<>>, gens |-> 0, evals |-> 0, paths |-> <<>>, rowPaths |-> <<>>,
             lastEval |-> <<>>]
Unseeded == [seed |-> -1, pos |-> 0]

Init ==
    /\ args \in Flags
    /\ pc = "L240"
    /\ fn = "none"
    /\ ran = <<>>
    /\ stream = Unseeded
    /\ point = 0
    /\ emitted = 0
    /\ calls = <<>>
    /\ stats = <<>>
    /\ row = NoRow
    /\ cal = CalIdle
    /\ t1 = T1Idle
    /\ hist = HistIdle
    /\ raised = NoError

(***************************************************************************)
(* The random stream.  A seeded stream is [seed, pos]: the value of a draw  *)
(* is a function of the seed and of how many draws came before it.  The     *)
(* stream of a fresh process is seeded from the operating system: a draw    *)
(* from it takes the stream to be any of EntryStreams.                      *)
(***************************************************************************)
EntryStreams == {[seed |-> s, pos |-> p] : s \in {1, seed}, p \in 0..MaxEntryPos}

PRNG(s, k) == ((s + 5) * (2 * k + 1) + k * k) % 11

Innovations(st, n) == [k \in 1..n |-> PRNG(st.seed, st.pos + k - 1)]

Advance(st, n) == [st EXCEPT !.pos = @ + n]

\* np.random.seed(42)
Reseeded == [seed |-> seed, pos |-> 0]

\* what a collaborator that is handed seed=42 may leave of the process-wide stream
AfterSeededCall(st) == {st} \cup {[seed |-> seed, pos |-> p] : p \in 0..MaxEntryPos}

(***************************************************************************)
(* Error propagation: no handler surrounds a collaborator call, so the      *)
(* exception leaves the report function and __main__.                       *)
(***************************************************************************)
\* faulty variant: the error is caught and the grid loop goes on
PropagateCaught(p) == p

Propagate(p) == "failed"

\* faulty variant: the replication loop swallows the error (except: continue)
PropagateFromReplicationSwallowed(p) == p

PropagateFromReplication(p) == "failed"

Enter(name) ==
    /\ fn' = name
    /\ ran' = Append(ran, name)
    /\ point' = 1
    /\ emitted' = 0
    /\ calls' = <<>>

(***************************************************************************)
(* simulate_asymptotic_critical_values                                      *)
(***************************************************************************)
\* faulty variant: the seed advances with the grid point
LevelCallArgsAdvancing(k) ==
    [c |-> c_bar_values[k], c_bar |-> c_bar_values[k], alpha |-> 1, detrend |-> "c",
     n_replications |-> n_replications_cv, n_steps |-> n_steps_cv, seed |-> seed + k - 1]

LevelCallArgs(k) ==
    [c |-> c_bar_values[k], c_bar |-> c_bar_values[k], alpha |-> 1, detrend |-> "c",
     n_replications |-> n_replications_cv, n_steps |-> n_steps_cv, seed |-> seed]

TrendCallArgs(k) ==
    [c |-> c_bar_values[k], c_bar |-> c_bar_values[k], alpha |-> 1, detrend |-> "ct",
     n_replications |-> n_replications_cv, n_steps |-> n_steps_cv, seed |-> seed]

NCBar == Len(c_bar_values)

RowOf(cb, sample) ==
    LET cv == CriticalValues(sample)
    IN [c_bar |-> cb, cv_1 |-> cv.cv_1, cv_5 |-> cv.cv_5, cv_10 |-> cv.cv_10]

\* lines 74-80: the call and the three percentiles
cv_level_call ==
    /\ fn = "cv" /\ pc # "failed" /\ point \in 1..NCBar /\ row = NoRow
    /\ \E s \in Samples :
        /\ stats' = s
        /\ row' = RowOf(c_bar_values[point], s)
    /\ calls' = Append(calls, LevelCallArgs(point))
    /\ UNCHANGED <<args, pc, fn, ran, stream, point, emitted, cal, t1, hist, raised>>

\* line 82: the row is printed
cv_level_print ==
    /\ fn = "cv" /\ pc # "failed" /\ point \in 1..NCBar /\ row # NoRow
    /\ emitted' = emitted + 1
    /\ point' = point + 1
    /\ stats' = <<>>
    /\ row' = NoRow
    /\ UNCHANGED <<args, pc, fn, ran, stream, calls, cal, t1, hist, raised>>

\* lines 101-107
cv_trend_call ==
    /\ fn = "cv" /\ pc # "failed" /\ point \in (NCBar + 1)..(2 * NCBar) /\ row = NoRow
    /\ \E s \in Samples :
        /\ stats' = s
        /\ row' = RowOf(c_bar_values[point - NCBar], s)
    /\ calls' = Append(calls, TrendCallArgs(point - NCBar))
    /\ UNCHANGED <<args, pc, fn, ran, stream, point, emitted, cal, t1, hist, raised>>

\* line 109
cv_trend_print ==
    /\ fn = "cv" /\ pc # "failed" /\ point \in (NCBar + 1)..(2 * NCBar) /\ row # NoRow
    /\ emitted' = emitted + 1
    /\ point' = point + 1
    /\ stats' = <<>>
    /\ row' = NoRow
    /\ UNCHANGED <<args, pc, fn, ran, stream, calls, cal, t1, hist, raised>>

\* simulate_critical_values raises at the current grid point
cv_collaborator_raises ==
    /\ fn = "cv" /\ pc # "failed" /\ point \in 1..(2 * NCBar) /\ row = NoRow
    /\ calls' = Append(calls, IF point <= NCBar THEN LevelCallArgs(point)
                              ELSE TrendCallArgs(point - NCBar))
    /\ raised' = [fn |-> "cv", point |-> point, rep |-> 0, who |-> "simulate_critical_values"]
    /\ pc' = Propagate(pc)
    /\ UNCHANGED <<args, fn, ran, stream, point, emitted, stats, row, cal, t1, hist>>

\* the report returns; the collaborator calls may have moved the process-wide stream
cv_return ==
    /\ fn = "cv" /\ pc # "failed" /\ point = 2 * NCBar + 1
    /\ fn' = "none"
    /\ point' = 0
    /\ stream' \in AfterSeededCall(stream)
    /\ UNCHANGED <<args, pc, ran, emitted, calls, stats, row, cal, t1, hist, raised>>

(***************************************************************************)
(* simulate_power_and_size, the Power/Size Calibrator: the critical value  *)
(* is the (1 - nominal)-quantile of the reference-point sample, and a       *)
(* rejection rate is the fraction of a sample strictly above it.            *)
(***************************************************************************)
Nominals == {25, 50, 75}

CalibratedCv(ref, nominal) == Percentile(ref, 100 - nominal)

\* faulty variant: a replication equal to the critical value counts as a rejection
ExceedingOrEqual(sample, cv100) ==
    Cardinality({j \in 1..Len(sample) : 100 * sample[j] >= cv100})

Exceeding(sample, cv100) ==
    Cardinality({j \in 1..Len(sample) : 100 * sample[j] > cv100})

Calibrated(ref, nominal) ==
    LET cv == CalibratedCv(ref, nominal)
    IN [stage |-> "calibrated", ref |-> ref, nominal |-> nominal, cv |-> cv,
        count |-> Exceeding(ref, cv), n |-> Len(ref), other_count |-> 0, other_n |-> 0]

(***************************************************************************)
(* simulate_power_curves                                                    *)
(***************************************************************************)
PowerCallArgs(alpha) ==
    [c_values |-> c_values, c_bar |-> c_bar_power, alpha |-> alpha,
     nominal_power |-> nominal_power, detrend |-> "c",
     n_replications |-> n_replications_power, n_steps |-> n_steps_power, seed |-> seed]

NAlphaPower == Len(alpha_power)

\* lines 142-145: the call; the collaborator calibrates on the reference point
power_call ==
    /\ fn = "power" /\ pc # "failed" /\ point \in 1..NAlphaPower /\ cal.stage = "idle"
    /\ \E s \in Samples :
        cal' = Calibrated(s, PowerCallArgs(alpha_power[point]).nominal_power)
    /\ calls' = Append(calls, PowerCallArgs(alpha_power[point]))
    /\ UNCHANGED <<args, pc, fn, ran, stream, point, emitted, stats, row, t1, hist, raised>>

\* lines 147-150: one row per value of c_values
power_print ==
    /\ fn = "power" /\ pc # "failed" /\ point \in 1..NAlphaPower /\ cal.stage = "calibrated"
    /\ emitted' = emitted + Len(c_values)
    /\ point' = point + 1
    /\ cal' = CalIdle
    /\ UNCHANGED <<args, pc, fn, ran, stream, calls, stats, row, t1, hist, raised>>

power_collaborator_raises ==
    /\ fn = "power" /\ pc # "failed" /\ point \in 1..NAlphaPower /\ cal.stage = "idle"
    /\ calls' = Append(calls, PowerCallArgs(alpha_power[point]))
    /\ raised' = [fn |-> "power", point |-> point, rep |-> 0, who |-> "simulate_power_and_size"]
    /\ pc' = Propagate(pc)
    /\ UNCHANGED <<args, fn, ran, stream, point, emitted, stats, row, cal, t1, hist>>

power_return ==
    /\ fn = "power" /\ pc # "failed" /\ point = NAlphaPower + 1
    /\ fn' = "none"
    /\ point' = 0
    /\ stream' \in AfterSeededCall(stream)
    /\ UNCHANGED <<args, pc, ran, emitted, calls, stats, row, cal, t1, hist, raised>>

(***************************************************************************)
(* The collaborators of simulate_table1_sizes.  The generator draws T       *)
(* innovations from the process-wide stream; the path it returns is         *)
(* represented by what determines it: the innovations drawn and the         *)
(* arguments of the call.  The evaluator draws nothing (compute_pvalue is   *)
(* False) and its 5% flag is a function of its arguments; EvaluatorKinds    *)
(* are the evaluators the import of line 176 may bind.                      *)
(***************************************************************************)
EvaluatorKinds == {0, 1}

RECURSIVE SumSeq(_)
SumSeq(s) == IF s = <<>> THEN 0 ELSE Head(s) + SumSeq(Tail(s))

simulate_near_integrated_ma(st, a) ==
    [e |-> Innovations(st, a.T), T |-> a.T, c |-> a.c, theta |-> a.theta,
     alpha |-> a.alpha, mu |-> a.mu, sigma |-> a.sigma]

DrawsPerPath(a) == a.T

modified_kpss_test(a, kind) ==
    [reject_5pct |->
        (SumSeq(a.y.e) * (kind + 1) + a.y.alpha * Head(a.y.e) + (a.y.theta + 6) \div 6
            + a.c_bar) % 3 = 0]

(***************************************************************************)
(* simulate_table1_sizes                                                    *)
(***************************************************************************)
\* faulty variant: every call is handed the first alpha
GenArgsFirstAlpha(theta, alpha) ==
    [T |-> TLen, c |-> c_table1, theta |-> theta, alpha |-> alpha_values[1],
     mu |-> 0, sigma |-> 1]

\* line 197: simulate_near_integrated_ma(T, c, theta, alpha, mu=0.0, sigma=1.0)
GenArgs(theta, alpha) ==
    [T |-> TLen, c |-> c_table1, theta |-> theta, alpha |-> alpha, mu |-> 0, sigma |-> 1]

\* line 198: modified_kpss_test(y, c_bar=c_bar, compute_pvalue=False)
EvalArgs(y) == [y |-> y, c_bar |-> c_bar_table1, compute_pvalue |-> FALSE]

\* faulty variant: the stream is reseeded once per theta row
SeedPerRow(st, ai) == IF ai = 1 THEN Reseeded ELSE st

\* faulty variant: the reseed is left out
SeedNever(st, ai) == st

\* line 193: np.random.seed(42) at the start of the cell
SeedAtCell(st, ai) == Reseeded

\* faulty variant: the counter is set to 0 once per theta row
CounterPerRow(t) == IF t.ai = 1 THEN 0 ELSE t.rejections

\* line 194: rejections = 0
CounterAtCell(t) == 0

\* line 202: size = rejections / n_sims
SizeOf(rejections, n) == <<rejections, n>>

NTheta == Len(theta_values)
NAlpha == Len(alpha_values)

Theta == theta_values[t1.ti]
Alpha == alpha_values[t1.ai]

t1_cell_begin ==
    /\ fn = "table1" /\ pc # "failed" /\ t1.phase = "cell"
    /\ stream' = SeedAtCell(stream, t1.ai)
    /\ t1' = [t1 EXCEPT !.rejections = CounterAtCell(t1), !.i = 0, !.phase = "rep",
                        !.sizes = IF t1.ai = 1 THEN <<>> ELSE @]
    /\ hist' = [hist EXCEPT !.cellLog = <<>>, !.gens = 0, !.evals = 0, !.paths = <<>>,
                            !.rowPaths = IF t1.ai = 1 THEN <<>> ELSE @]
    /\ UNCHANGED <<args, pc, fn, ran, point, emitted, calls, stats, row, cal, raised>>

t1_replication ==
    /\ fn = "table1" /\ pc # "failed" /\ t1.phase = "rep" /\ t1.i < NSims
    /\ \E s0 \in EntryStreams :
        LET st     == IF stream = Unseeded THEN s0 ELSE stream
            y      == simulate_near_integrated_ma(st, GenArgs(Theta, Alpha))
            result == modified_kpss_test(EvalArgs(y), t1.kind)
        IN /\ stream' = Advance(st, DrawsPerPath(GenArgs(Theta, Alpha)))
           /\ t1' = [t1 EXCEPT !.i = @ + 1,
                               !.rejections = IF result.reject_5pct THEN @ + 1 ELSE @]
           /\ hist' = [hist EXCEPT !.cellLog = Append(@, result.reject_5pct),
                                   !.gens = @ + 1, !.evals = @ + 1,
                                   !.paths = Append(@, y),
                                   !.lastEval = <<EvalArgs(y)>>]
    /\ UNCHANGED <<args, pc, fn, ran, point, emitted, calls, stats, row, cal, raised>>

\* simulate_near_integrated_ma raises in replication i + 1
t1_generator_raises ==
    /\ fn = "table1" /\ pc # "failed" /\ t1.phase = "rep" /\ t1.i < NSims
    /\ raised' = [fn |-> "table1", point |-> t1.ti, rep |-> t1.i + 1,
                  who |-> "simulate_near_integrated_ma"]
    /\ pc' = PropagateFromReplication(pc)
    /\ UNCHANGED <<args, fn, ran, stream, point, emitted, calls, stats, row, cal, t1, hist>>

\* modified_kpss_test raises in replication i + 1, on the path just generated
t1_evaluator_raises ==
    /\ fn = "table1" /\ pc # "failed" /\ t1.phase = "rep" /\ t1.i < NSims
    /\ \E s0 \in EntryStreams :
        LET st == IF stream = Unseeded THEN s0 ELSE stream
            y  == simulate_near_integrated_ma(st, GenArgs(Theta, Alpha))
        IN /\ stream' = Advance(st, DrawsPerPath(GenArgs(Theta, Alpha)))
           /\ hist' = [hist EXCEPT !.gens = @ + 1, !.paths = Append(@, y),
                                   !.lastEval = <<EvalArgs(y)>>]
    /\ raised' = [fn |-> "table1", point |-> t1.ti, rep |-> t1.i + 1,
                  who |-> "modified_kpss_test"]
    /\ pc' = PropagateFromReplication(pc)
    /\ UNCHANGED <<args, fn, ran, point, emitted, calls, stats, row, cal, t1>>

t1_cell_end ==
    /\ fn = "table1" /\ pc # "failed" /\ t1.phase = "rep" /\ t1.i = NSims
    /\ t1' = [t1 EXCEPT !.sizes = Append(@, SizeOf(t1.rejections, NSims)),
                        !.ai = IF t1.ai < NAlpha THEN @ + 1 ELSE @,
                        !.phase = IF t1.ai < NAlpha THEN "cell" ELSE "print"]
    /\ hist' = [hist EXCEPT !.rowPaths = IF t1.ai = 1 THEN hist.paths ELSE @]
    /\ UNCHANGED <<args, pc, fn, ran, stream, point, emitted, calls, stats, row, cal, raised>>

t1_row_print ==
    /\ fn = "table1" /\ pc # "failed" /\ t1.phase = "print"
    /\ emitted' = emitted + 1
    /\ t1' = [t1 EXCEPT !.ti = IF t1.ti < NTheta THEN @ + 1 ELSE @,
                        !.ai = IF t1.ti < NTheta THEN 1 ELSE @,
                        !.phase = IF t1.ti < NTheta THEN "cell" ELSE "done"]
    /\ UNCHANGED <<args, pc, fn, ran, stream, point, calls, stats, row, cal, hist, raised>>

t1_return ==
    /\ fn = "table1" /\ pc # "failed" /\ t1.phase = "done"
    /\ fn' = "none"
    /\ point' = 0
    /\ t1' = T1Idle
    /\ hist' = HistIdle
    /\ UNCHANGED <<args, pc, ran, stream, emitted, calls, stats, row, cal, raised>>

(***************************************************************************)
(* __main__ (lines 238-254)                                                 *)
(***************************************************************************)
main_if_critical_values ==
    /\ pc = "L240" /\ fn = "none"
    /\ pc' = "L243"
    /\ IF RunsCritical(args) THEN Enter("cv")
       ELSE UNCHANGED <<fn, ran, point, emitted, calls>>
    /\ UNCHANGED <<args, stream, stats, row, cal, t1, hist, raised>>

main_if_power_curves ==
    /\ pc = "L243" /\ fn = "none"
    /\ pc' = "L246"
    /\ IF RunsPower(args) THEN Enter("power")
       ELSE UNCHANGED <<fn, ran, point, emitted, calls>>
    /\ UNCHANGED <<args, stream, stats, row, cal, t1, hist, raised>>

main_if_table1 ==
    /\ pc = "L246" /\ fn = "none"
    /\ pc' = "L249"
    /\ IF RunsTable1(args)
       THEN /\ Enter("table1")
            /\ \E kind \in EvaluatorKinds :
                t1' = [T1Idle EXCEPT !.kind = kind, !.ti = 1, !.ai = 1, !.phase = "cell"]
            /\ hist' = HistIdle
       ELSE UNCHANGED <<fn, ran, point, emitted, calls, t1, hist>>
    /\ UNCHANGED <<args, stream, stats, row, cal, raised>>

main_if_default ==
    /\ pc = "L249" /\ fn = "none"
    /\ pc' = "exit"
    /\ IF RunsDefault(args) THEN Enter("cv")
       ELSE UNCHANGED <<fn, ran, point, emitted, calls>>
    /\ UNCHANGED <<args, stream, stats, row, cal, t1, hist, raised>>

Next ==
    \/ main_if_critical_values
    \/ main_if_power_curves
    \/ main_if_table1
    \/ main_if_default
    \/ cv_level_call
    \/ cv_level_print
    \/ cv_trend_call
    \/ cv_trend_print
    \/ cv_collaborator_raises
    \/ cv_return
    \/ power_call
    \/ power_print
    \/ power_collaborator_raises
    \/ power_return
    \/ t1_cell_begin
    \/ t1_replication
    \/ t1_generator_raises
    \/ t1_evaluator_raises
    \/ t1_cell_end
    \/ t1_row_print
    \/ t1_return

Spec == Init /\ [][Next]_vars

(***************************************************************************)
(* The Critical Value Extractor on its own: any sample, any grid value.     *)
(***************************************************************************)
Idle ==
    /\ args = [all |-> FALSE, critical_values |-> FALSE, power_curves |-> FALSE,
               table1 |-> FALSE]
    /\ pc = "exit"
    /\ ran = <<>>
    /\ stream = Unseeded
    /\ point = 0
    /\ emitted = 0
    /\ calls = <<>>
    /\ t1 = T1Idle
    /\ hist = HistIdle
    /\ raised = NoError

InitExtractor ==
    /\ Idle
    /\ fn = "extractor"
    /\ stats \in ExtractorSamples
    /\ row = NoRow
    /\ cal = CalIdle

extract_row ==
    /\ fn = "extractor" /\ row = NoRow
    /\ \E k \in 1..NCBar : row' = RowOf(c_bar_values[k], stats)
    /\ emitted' = emitted + 1
    /\ UNCHANGED <<args, pc, fn, ran, stream, point, calls, stats, cal, t1, hist, raised>>

NextExtractor == extract_row

SpecExtractor == InitExtractor /\ [][NextExtractor]_vars

(***************************************************************************)
(* The Power/Size Calibrator on its own: any reference sample, any nominal  *)
(* target, then one more point of the sweep.                                *)
(***************************************************************************)
InitCalibrator ==
    /\ Idle
    /\ fn = "calibrator"
    /\ stats = <<>>
    /\ row = NoRow
    /\ \E ref \in Samples, nominal \in Nominals :
        cal = [CalIdle EXCEPT !.stage = "ready", !.ref = ref, !.nominal = nominal]

calibration_phase ==
    /\ fn = "calibrator" /\ cal.stage = "ready"
    /\ cal' = Calibrated(cal.ref, cal.nominal)
    /\ UNCHANGED <<args, pc, fn, ran, stream, point, emitted, calls, stats, row, t1, hist, raised>>

sweep_phase ==
    /\ fn = "calibrator" /\ cal.stage = "calibrated"
    /\ \E s \in Samples :
        cal' = [cal EXCEPT !.stage = "swept", !.other_count = Exceeding(s, cal.cv),
                           !.other_n = Len(s)]
    /\ UNCHANGED <<args, pc, fn, ran, stream, point, emitted, calls, stats, row, t1, hist, raised>>

NextCalibrator == calibration_phase \/ sweep_phase

SpecCalibrator == InitCalibrator /\ [][NextCalibrator]_vars

(***************************************************************************)
(*                              The claims                                  *)
(***************************************************************************)
Entered(name) == \E k \in 1..Len(ran) : ran[k] = name

Rank(name) == CASE name = "cv" -> 1 [] name = "power" -> 2 [] name = "table1" -> 3

NoFlag == ~args.all /\ ~args.critical_values /\ ~args.power_curves /\ ~args.table1

\* C1: for every combination of the four flags, a completed run has run the
\* critical-values report iff --critical-values or --all or no flag is set, the
\* power-curves report iff --power-curves or --all, the Table 1 report iff
\* --table1 or --all; at any time the reports entered are in the order
\* critical-values, power-curves, table1, each at most once, and with no flag
\* exactly the critical-values report runs.
C1_Dispatch ==
    /\ \A j, k \in 1..Len(ran) : j < k => Rank(ran[j]) < Rank(ran[k])
    /\ Entered("power") => args.power_curves \/ args.all
    /\ Entered("table1") => args.table1 \/ args.all
    /\ Entered("cv") => args.critical_values \/ args.all \/ NoFlag
    /\ (pc = "exit" /\ fn = "none") =>
        /\ Entered("cv") <=> (args.critical_values \/ args.all \/ NoFlag)
        /\ Entered("power") <=> (args.power_curves \/ args.all)
        /\ Entered("table1") <=> (args.table1 \/ args.all)
        /\ NoFlag => ran = <<"cv">>

\* C1 witness: a run with only --all that finished after the three reports
C1_Witness ==
    /\ pc = "exit" /\ fn = "none"
    /\ args.all /\ ~args.critical_values /\ ~args.power_curves /\ ~args.table1
    /\ ran = <<"cv", "power", "table1">>

InCell == fn = "table1" /\ pc # "failed" /\ t1.phase = "rep"

\* C2: in simulate_table1_sizes the stream is reseeded to 42 at the start of
\* every cell and nowhere else: replication i of every cell starts from the
\* stream state reached by seed 42 and i - 1 paths, so the innovations drawn by
\* the replications of a cell are those of the first alpha of the row.
C2_ReseedPerCell ==
    /\ InCell => stream = [seed |-> 42, pos |-> t1.i * TLen]
    /\ InCell => \A j \in 1..Len(hist.paths) :
        /\ hist.paths[j].e = [k \in 1..TLen |-> PRNG(42, (j - 1) * TLen + k - 1)]
        /\ t1.ai > 1 => hist.paths[j].e = hist.rowPaths[j].e
    /\ (fn = "table1" /\ pc # "failed" /\ t1.phase \in {"print", "done"}) => stream.seed = 42

\* C2 witness: the second alpha of a row has drawn all its replications, on the
\* innovations of the first
C2_Witness ==
    /\ InCell /\ t1.ai = 2 /\ t1.i = NSims
    /\ Len(hist.rowPaths) = NSims
    /\ hist.paths[NSims].e = hist.rowPaths[NSims].e

Count(log) == Cardinality({j \in 1..Len(log) : log[j]})

CellReported ==
    /\ fn = "table1" /\ pc # "failed"
    /\ t1.phase \in {"cell", "print"}
    /\ t1.sizes # <<>>

\* C4: the size reported for a cell is rejections / n_sims, where rejections is
\* the number of the cell's n_sims replications whose 5% flag was set; exactly
\* n_sims generate-then-evaluate pairs ran, the counter started at 0 for the
\* cell, and the size lies in [0, 1].
C4_EmpiricalSize ==
    /\ InCell =>
        /\ t1.rejections = Count(hist.cellLog)
        /\ t1.i = Len(hist.cellLog) /\ hist.gens = t1.i /\ hist.evals = t1.i
        /\ t1.i <= NSims
    /\ CellReported =>
        LET size == t1.sizes[Len(t1.sizes)]
        IN /\ Len(hist.cellLog) = NSims /\ hist.gens = NSims /\ hist.evals = NSims
           /\ size[2] > 0
           /\ size[1] * NSims = Count(hist.cellLog) * size[2]
           /\ 0 <= size[1] /\ size[1] <= size[2]

\* C4 witness: a row is about to be printed whose second cell counted a
\* rejection after the first cell had counted one too
C4_Witness ==
    /\ CellReported /\ t1.phase = "cell" /\ Len(t1.sizes) = 2
    /\ t1.sizes[1][1] > 0
    /\ t1.sizes[2][1] > 0
    /\ t1.sizes[2][1] = Count(hist.cellLog)

(***************************************************************************)
(* The order statistics of a sample, stated without computing them.         *)
(***************************************************************************)
IsOrderStatistic(sample, k, v) ==
    /\ \E j \in 1..Len(sample) : sample[j] = v
    /\ Cardinality({j \in 1..Len(sample) : sample[j] < v}) < k
    /\ Cardinality({j \in 1..Len(sample) : sample[j] <= v}) >= k

\* v100 / 100 is the value interpolated at rank p / 100 * (n - 1) of the sorted sample
InterpolatedAt(sample, p, v100) ==
    LET n == Len(sample)
    IN \E lo \in 0..(n - 1), r \in 0..99 :
        /\ 100 * lo + r = p * (n - 1)
        /\ \E j, k \in 1..n :
            /\ IsOrderStatistic(sample, lo + 1, sample[j])
            /\ IsOrderStatistic(sample, IF lo + 2 <= n THEN lo + 2 ELSE n, sample[k])
            /\ v100 = 100 * sample[j] + r * (sample[k] - sample[j])

\* C5: the extractor reports the 1%, 5% and 10% critical values as the 99th,
\* 95th and 90th percentiles of the sample, interpolated linearly between
\* order statistics at rank p/100 * (n-1); for the sample 1..100 the 95th
\* percentile is 95.05.
C5_Percentiles ==
    (fn = "extractor" /\ row # NoRow) =>
        /\ InterpolatedAt(stats, 99, row.cv_1)
        /\ InterpolatedAt(stats, 95, row.cv_5)
        /\ InterpolatedAt(stats, 90, row.cv_10)
        /\ stats = [k \in 1..100 |-> k] => row.cv_5 = 9505

\* C5 witness: the row of the sample 1..100
C5_Witness ==
    /\ fn = "extractor" /\ row # NoRow
    /\ stats = [k \in 1..100 |-> k]
    /\ row.cv_1 = 9901 /\ row.cv_5 = 9505 /\ row.cv_10 = 9010

HasCalibrated == fn = "calibrator" /\ cal.stage \in {"calibrated", "swept"}

DistinctValues(sample) ==
    \A j, k \in 1..Len(sample) : j # k => sample[j] # sample[k]

\* C6 as claimed: for every reference sample and nominal target the fraction of
\* reference replications above the calibrated cv equals the nominal target.
C6_CalibrationIdentity ==
    HasCalibrated => 100 * cal.count = cal.nominal * cal.n

\* C6 amended: the fraction of reference replications above cv equals the
\* nominal target when the reference values are pairwise distinct and
\* nominal * n is a whole number; in every case the number above cv is at most
\* nominal * (n - 1) rounded up; the one cv is kept for the sweep.
C6_CalibrationWhenExact ==
    HasCalibrated =>
        /\ (DistinctValues(cal.ref) /\ (cal.nominal * cal.n) % 100 = 0) =>
                100 * cal.count = cal.nominal * cal.n
        /\ 100 * (cal.count - 1) < cal.nominal * (cal.n - 1)
        /\ DistinctValues(cal.ref) => 100 * cal.count >= cal.nominal * (cal.n - 1)
        /\ InterpolatedAt(cal.ref, 100 - cal.nominal, cal.cv)

\* C6 witness: two distinct reference values, nominal 0.50, half above cv, swept
C6_Witness ==
    /\ fn = "calibrator" /\ cal.stage = "swept"
    /\ cal.n = 2 /\ DistinctValues(cal.ref) /\ cal.nominal = 50
    /\ cal.count = 1

ExpectedRejections(theta, alpha, kind) ==
    Cardinality({i \in 1..NSims :
        LET e == [k \in 1..TLen |-> PRNG(42, (i - 1) * TLen + k - 1)]
            y == [e |-> e, T |-> TLen, c |-> 10, theta |-> theta, alpha |-> alpha,
                  mu |-> 0, sigma |-> 1]
        IN modified_kpss_test([y |-> y, c_bar |-> 10, compute_pvalue |-> FALSE],
                              kind).reject_5pct})

\* C7: every cell value of simulate_table1_sizes is a function of theta, alpha
\* and the (deterministic) collaborators alone: it is the same whatever the
\* process-wide stream was on entry and whichever reports ran before.
C7_Reproducible ==
    (fn = "table1" /\ pc # "failed"
        /\ (t1.phase \in {"rep", "print"} \/ (t1.phase = "cell" /\ t1.ai > 1))) =>
        \A j \in 1..Len(t1.sizes) :
            /\ t1.sizes[j][1] =
                ExpectedRejections(theta_values[t1.ti], alpha_values[j], t1.kind)
            /\ t1.sizes[j][2] = NSims

\* C7 witness: under --all, after the two other reports, a full row of the
\* table is about to be printed
C7_Witness ==
    /\ fn = "table1" /\ t1.phase = "print" /\ t1.ti = 2
    /\ ran = <<"cv", "power", "table1">>
    /\ Len(t1.sizes) = 3

HasRaised == raised.fn # "none"

RowsPerPoint(name) == CASE name = "cv" -> 1 [] name = "power" -> 11 [] name = "table1" -> 1

\* C8 as claimed: when a collaborator raises, the run ends and no result row of
\* the report being built has been emitted.
C8_NoRowEmitted ==
    HasRaised => pc = "failed" /\ emitted = 0

\* C8 amended: a collaborator error is never caught: the run ends in the report
\* that raised, with no row for the failing grid point and none after it; the
\* rows of the grid points before it have been printed.
C8_PropagatesAfterEarlierRows ==
    HasRaised =>
        /\ pc = "failed"
        /\ fn = raised.fn
        /\ ~ENABLED Next
        /\ emitted = RowsPerPoint(raised.fn) * (raised.point - 1)

\* C8 witness: simulate_critical_values raised at the third grid point, after
\* two rows were printed
C8_Witness ==
    /\ raised.fn = "cv" /\ raised.point = 3
    /\ pc = "failed" /\ emitted = 2

EvaluatorRaised == raised.who = "modified_kpss_test"

\* C9 as claimed: when the evaluator fails for replication i the loop is not
\* aborted: the loop goes on to its next replication or to the end of the cell.
C9_LoopGoesOn ==
    EvaluatorRaised => (ENABLED t1_replication \/ ENABLED t1_cell_end)

\* C9 amended: an evaluator error aborts the loop: the run ends, the remaining
\* replications of the cell are not executed and no size is recorded for the
\* cell; the failed replication was generated but never counted.
C9_LoopAborted ==
    EvaluatorRaised =>
        /\ pc = "failed"
        /\ ~ENABLED t1_replication /\ ~ENABLED t1_cell_end
        /\ t1.i = raised.rep - 1 /\ t1.i < NSims
        /\ hist.evals = t1.i /\ hist.gens = t1.i + 1
        /\ Len(t1.sizes) = t1.ai - 1

\* C9 witness: the evaluator raised in the first replication of a second cell,
\* with replications left to run
C9_Witness ==
    /\ EvaluatorRaised /\ raised.rep = 1 /\ raised.rep < NSims
    /\ t1.ai = 2 /\ Len(t1.sizes) = 1
    /\ pc = "failed"

\* C10: the critical-values report makes exactly 12 calls, 6 c_bar values for
\* detrend "c" then the same 6 for "ct", each with seed 42, alpha 1 and
\* c = c_bar; the power-curves report makes exactly 3 calls, alpha 1, 2, 3,
\* each with seed 42, c_values 0..10 and nominal power 0.50.
C10_FixedSeedEveryPoint ==
    /\ fn = "cv" =>
        /\ Len(calls) <= 12
        /\ (point = 13 /\ pc # "failed") => Len(calls) = 12
        /\ \A g \in 1..Len(calls) :
            /\ calls[g].seed = 42 /\ calls[g].alpha = 1
            /\ calls[g].c = calls[g].c_bar
            /\ calls[g].c_bar = <<5, 7, 10, 13, 15, 20>>[((g - 1) % 6) + 1]
            /\ calls[g].detrend = IF g <= 6 THEN "c" ELSE "ct"
    /\ fn = "power" =>
        /\ Len(calls) <= 3
        /\ (point = 4 /\ pc # "failed") => Len(calls) = 3
        /\ \A g \in 1..Len(calls) :
            /\ calls[g].seed = 42 /\ calls[g].alpha = g
            /\ calls[g].c_values = <<0, 1, 2, 3, 4, 5, 6, 7, 8, 9, 10>>
            /\ calls[g].nominal_power = 50

\* C10 witness: the power-curves report has made its three calls after the
\* critical-values report made its twelve
C10_Witness ==
    /\ fn = "power" /\ point = 4 /\ Len(calls) = 3
    /\ ran = <<"cv", "power">>
====
